---- MODULE Spec2Model ----
(***************************************************************************)
(* Model of openml/flows/flow.py: the OpenMLFlow entity (constructor,      *)
(* _to_dict/_to_xml, _from_xml, __eq__, publish, _ensure_flow_exists) and  *)
(* the module functions create_flow_from_model and _check_flow_exists.     *)
(*                                                                         *)
(* Python values are records tagged with their type in field ty, so that   *)
(* isinstance tests, None tests and int() conversions are modelled by what *)
(* they do.  An OrderedDict, dict or list carries its entries as a         *)
(* sequence in insertion order.  A call either returns a value or raises:  *)
(* [exc |-> "", val |-> v] or [exc |-> "<ExceptionClass>", val |-> None].  *)
(***************************************************************************)
EXTENDS Integers, Sequences, FiniteSets, TLC

VARIABLES args, flow, other, result

vars == <<args, flow, other, result>>

(***************************************************************************)
(* Python values                                                           *)
(***************************************************************************)
None == [ty |-> "NoneType", v |-> ""]
Str(s) == [ty |-> "str", v |-> s]
IntV(n) == [ty |-> "int", v |-> n]
Bool(b) == [ty |-> "bool", v |-> b]
Obj(s) == [ty |-> "object", v |-> s]
List(items) == [ty |-> "list", items |-> items]
OD(items) == [ty |-> "OrderedDict", items |-> items]
Dict(items) == [ty |-> "dict", items |-> items]
NotImplemented == [ty |-> "NotImplementedType", v |-> ""]

Ok(v) == [exc |-> "", val |-> v]
Raise(e) == [exc |-> e, val |-> None]

\* isinstance(x, six.string_types)
IsString(x) == x.ty = "str"
\* isinstance(x, dict): OrderedDict is a subclass of dict
IsDict(x) == x.ty \in {"OrderedDict", "dict"}

\* Mapping helpers over the entry sequence <<key, value>>.
KeysOf(d) == [i \in DOMAIN d.items |-> d.items[i][1]]
ValuesOf(d) == [i \in DOMAIN d.items |-> d.items[i][2]]
KeySet(d) == {d.items[i][1] : i \in DOMAIN d.items}
Has(d, k) == \E i \in DOMAIN d.items : d.items[i][1] = k
Get(d, k) == d.items[CHOOSE i \in DOMAIN d.items : d.items[i][1] = k][2]
\* dict.get(k): None when the key is absent
GetOr(d, k) == IF Has(d, k) THEN Get(d, k) ELSE None
\* d[k] = v on an insertion-ordered mapping: a present key keeps its place
Put(d, k, v) ==
    IF Has(d, k)
    THEN [d EXCEPT !.items =
            [i \in DOMAIN d.items |->
                IF d.items[i][1] = k THEN <<k, v>> ELSE d.items[i]]]
    ELSE [d EXCEPT !.items = Append(d.items, <<k, v>>)]

\* int(x) for the values the module converts: an int, or a decimal string
Numerals == ("-1" :> -1) @@ ("5" :> 5) @@ ("6" :> 6) @@ ("17" :> 17) @@ ("42" :> 42)
int(x) ==
    IF x.ty = "int" THEN Ok(x)
    ELSE IF x.ty = "str" /\ x.v \in DOMAIN Numerals THEN Ok(IntV(Numerals[x.v]))
    ELSE IF x.ty = "str" THEN Raise("ValueError")
    ELSE Raise("TypeError")

(***************************************************************************)
(* OpenMLFlow.__init__                                                     *)
(***************************************************************************)
NoFlow == [ty |-> "unbound"]

\* Parameters of __init__ without a default, and the defaults of the others.
RequiredArgs == {"name", "description", "model", "components", "parameters",
                 "parameters_meta_info", "external_version", "tags",
                 "language", "dependencies"}
DefaultArgs == [binary_url |-> None, binary_format |-> None,
                binary_md5 |-> None, uploader |-> None, upload_date |-> None,
                flow_id |-> None, version |-> None]
AllArgs == RequiredArgs \cup DOMAIN DefaultArgs

\* A plausible slip: only the names missing from parameters_meta_info are
\* looked for.
KeyMismatchOneWay(parameters, parameters_meta_info) ==
    KeySet(parameters) \ KeySet(parameters_meta_info) # {}

\* The two set differences that raise ValueError.
KeyMismatch(parameters, parameters_meta_info) ==
    LET keys_parameters == KeySet(parameters)
        keys_parameters_meta_info == KeySet(parameters_meta_info)
    IN  \/ keys_parameters \ keys_parameters_meta_info # {}
        \/ keys_parameters_meta_info \ keys_parameters # {}

\* cls(**kw): a missing required argument or an unknown keyword is a
\* TypeError of the call itself; then the body of __init__ runs.
__init__(kw) ==
    IF RequiredArgs \ DOMAIN kw # {} \/ DOMAIN kw \ AllArgs # {}
    THEN Raise("TypeError")
    ELSE
    LET a == kw @@ DefaultArgs
    IN  IF \E variable \in {a.components, a.parameters, a.parameters_meta_info} :
              variable.ty # "OrderedDict"
        THEN Raise("TypeError")
        ELSE IF KeyMismatch(a.parameters, a.parameters_meta_info)
        THEN Raise("ValueError")
        ELSE Ok([ty |-> "OpenMLFlow",
                 name |-> a.name,
                 description |-> a.description,
                 model |-> a.model,
                 components |-> a.components,
                 parameters |-> a.parameters,
                 parameters_meta_info |-> a.parameters_meta_info,
                 external_version |-> a.external_version,
                 uploader |-> a.uploader,
                 tags |-> IF a.tags # None THEN a.tags ELSE List(<<>>),
                 binary_url |-> a.binary_url,
                 binary_format |-> a.binary_format,
                 binary_md5 |-> a.binary_md5,
                 version |-> a.version,
                 upload_date |-> a.upload_date,
                 language |-> a.language,
                 dependencies |-> a.dependencies,
                 flow_id |-> a.flow_id])

_get_name(self) == self.name

(***************************************************************************)
(* OpenMLFlow._to_dict                                                     *)
(***************************************************************************)
\* "if value is not None: d[key] = value"
Opt(key, value) == IF value # None THEN << <<Str(key), value>> >> ELSE <<>>

\* A plausible slip: version is set before name.
HeadFieldsVersionFirst(self) ==
    << <<Str("@xmlns:oml"), Str("http://openml.org/openml")>> >>
    \o Opt("oml:id", self.flow_id)
    \o Opt("oml:uploader", self.uploader)
    \o Opt("oml:version", self.version)
    \o << <<Str("oml:name"), self.name>> >>
    \o << <<Str("oml:external_version"), self.external_version>> >>
    \o << <<Str("oml:description"), self.description>> >>
    \o Opt("oml:upload_date", self.upload_date)
    \o Opt("oml:language", self.language)
    \o Opt("oml:dependencies", self.dependencies)

\* The scalar fields set before the parameter blocks.
HeadFields(self) ==
    << <<Str("@xmlns:oml"), Str("http://openml.org/openml")>> >>
    \o Opt("oml:id", self.flow_id)
    \o Opt("oml:uploader", self.uploader)
    \o << <<Str("oml:name"), _get_name(self)>> >>
    \o Opt("oml:version", self.version)
    \o << <<Str("oml:external_version"), self.external_version>> >>
    \o << <<Str("oml:description"), self.description>> >>
    \o Opt("oml:upload_date", self.upload_date)
    \o Opt("oml:language", self.language)
    \o Opt("oml:dependencies", self.dependencies)

\* The fields set after the tags.
TailFields(self) ==
    Opt("oml:binary_url", self.binary_url)
    \o Opt("oml:binary_format", self.binary_format)
    \o Opt("oml:binary_md5", self.binary_md5)

\* param_dict of one parameter, in the order its keys are set.
ParamDict(self, key) ==
    LET meta == Get(self.parameters_meta_info, key)
    IN  OD(<< <<Str("oml:name"), key>> >>
           \o Opt("oml:data_type", meta.data_type)
           \o << <<Str("oml:default_value"), Get(self.parameters, key)>> >>
           \o Opt("oml:description", meta.description))

\* The check loop over param_dict.items(): key_ is the dictionary key,
\* value the entry's value; None passes both tests.
ParamDictSerializable(param_dict) ==
    \A i \in DOMAIN param_dict.items :
        LET key_ == param_dict.items[i][1]
            value == param_dict.items[i][2]
        IN  /\ (key_ = None \/ IsString(key_))
            /\ (value = None \/ IsString(value))

\* flow_parameters: the loop over self.parameters, from its i-th key on.
RECURSIVE FlowParameters(_, _)
FlowParameters(self, i) ==
    IF i > Len(self.parameters.items) THEN Ok(<<>>)
    ELSE
    LET key == self.parameters.items[i][1]
    IN  IF ~Has(self.parameters_meta_info, key) THEN Raise("KeyError")
        ELSE IF ~ParamDictSerializable(ParamDict(self, key))
        THEN Raise("ValueError")
        ELSE LET rest == FlowParameters(self, i + 1)
             IN  IF rest.exc # "" THEN rest
                 ELSE Ok(<<ParamDict(self, key)>> \o rest.val)

RECURSIVE _to_dict(_)
\* components: the loop over self.components, from its i-th key on.
RECURSIVE FlowComponents(_, _)
FlowComponents(self, i) ==
    IF i > Len(self.components.items) THEN Ok(<<>>)
    ELSE
    LET key == self.components.items[i][1]
        child == _to_dict(self.components.items[i][2])
    IN  IF child.exc # "" THEN child
        ELSE
        LET component_dict ==
                OD(<< <<Str("oml:identifier"), key>>,
                      <<Str("oml:flow"), Get(child.val, Str("oml:flow"))>> >>)
        IN  IF \E j \in DOMAIN component_dict.items :
                  LET key_ == component_dict.items[j][1]
                  IN  key_ # None /\ ~IsString(key_)
            THEN Raise("ValueError")
            ELSE LET rest == FlowComponents(self, i + 1)
                 IN  IF rest.exc # "" THEN rest
                     ELSE Ok(<<component_dict>> \o rest.val)

_to_dict(self) ==
    LET flow_parameters == FlowParameters(self, 1)
    IN  IF flow_parameters.exc # "" THEN flow_parameters
        ELSE
        LET components == FlowComponents(self, 1)
        IN  IF components.exc # "" THEN components
            ELSE Ok(OD(<< <<Str("oml:flow"),
                     OD(HeadFields(self)
                        \o << <<Str("oml:parameter"), List(flow_parameters.val)>> >>
                        \o << <<Str("oml:component"), List(components.val)>> >>
                        \o << <<Str("oml:tag"), self.tags>> >>
                        \o TailFields(self))>> >>))

\* xmltodict.unparse renders the document with a leading XML declaration;
\* _to_xml drops that first line.
_to_xml(self) ==
    LET flow_dict == _to_dict(self)
    IN  IF flow_dict.exc # "" THEN flow_dict
        ELSE LET flow_xml == [ty |-> "str", declaration |-> TRUE,
                              document |-> flow_dict.val]
             IN  Ok([flow_xml EXCEPT !.declaration = FALSE])

(***************************************************************************)
(* OpenMLFlow._from_xml                                                    *)
(***************************************************************************)
\* "[x] if isinstance(x, dict) else x", then the for loop over it: a list
\* yields its items, a str its characters.
Chars == ("t" :> <<"t">>) @@ ("tag" :> <<"t", "a", "g">>)
Iterate(x) ==
    IF IsDict(x) THEN <<x>>
    ELSE IF x.ty = "list" THEN x.items
    ELSE IF x.ty = "str" /\ x.v \in DOMAIN Chars
    THEN [i \in DOMAIN Chars[x.v] |-> Str(Chars[x.v][i])]
    ELSE <<>>

\* The loop over oml_parameters from the i-th entry on; acc holds
\* parameters and parameters_meta_info as filled so far.  The meta-info
\* entry maps description and data_type, each None when absent.
RECURSIVE FromXmlParameters(_, _, _)
FromXmlParameters(oml_parameters, i, acc) ==
    IF i > Len(oml_parameters) THEN Ok(acc)
    ELSE
    LET oml_parameter == oml_parameters[i]
    IN  IF ~IsDict(oml_parameter) THEN Raise("TypeError")
        ELSE IF ~Has(oml_parameter, Str("oml:name")) THEN Raise("KeyError")
        ELSE IF ~Has(oml_parameter, Str("oml:default_value")) THEN Raise("KeyError")
        ELSE
        LET parameter_name == Get(oml_parameter, Str("oml:name"))
            default_value == Get(oml_parameter, Str("oml:default_value"))
            meta_info == [description |-> GetOr(oml_parameter, Str("oml:description")),
                          data_type |-> GetOr(oml_parameter, Str("oml:data_type"))]
        IN  FromXmlParameters(oml_parameters, i + 1,
                [parameters |-> Put(acc.parameters, parameter_name, default_value),
                 parameters_meta_info |->
                     Put(acc.parameters_meta_info, parameter_name, meta_info)])

RECURSIVE _from_xml(_)
\* The loop over oml_components from the i-th entry on.
RECURSIVE FromXmlComponents(_, _, _)
FromXmlComponents(oml_components, i, components) ==
    IF i > Len(oml_components) THEN Ok(components)
    ELSE
    LET component == oml_components[i]
        child == _from_xml(component)
    IN  IF child.exc # "" THEN child
        ELSE IF ~Has(component, Str("oml:identifier")) THEN Raise("KeyError")
        ELSE FromXmlComponents(oml_components, i + 1,
                 Put(components, Get(component, Str("oml:identifier")), child.val))

\* The keyword arguments _from_xml collects from the document.
arguments(xml_dict) ==
    IF ~IsDict(xml_dict) THEN Raise("TypeError")
    ELSE IF ~Has(xml_dict, Str("oml:flow")) THEN Raise("KeyError")
    ELSE
    LET dic == Get(xml_dict, Str("oml:flow"))
    IN  IF ~IsDict(dic) THEN Raise("TypeError")
        ELSE IF \E key \in {"name", "external_version"} : ~Has(dic, Str("oml:" \o key))
        THEN Raise("KeyError")
        ELSE
        LET flow_id == IF Has(dic, Str("oml:id"))
                       THEN int(Get(dic, Str("oml:id"))) ELSE Ok(None)
            params == IF Has(dic, Str("oml:parameter"))
                      THEN FromXmlParameters(Iterate(Get(dic, Str("oml:parameter"))), 1,
                               [parameters |-> OD(<<>>),
                                parameters_meta_info |-> OD(<<>>)])
                      ELSE Ok([parameters |-> OD(<<>>),
                               parameters_meta_info |-> OD(<<>>)])
            components == IF Has(dic, Str("oml:component"))
                          THEN FromXmlComponents(
                                   Iterate(Get(dic, Str("oml:component"))), 1, OD(<<>>))
                          ELSE Ok(OD(<<>>))
            tags == IF Has(dic, Str("oml:tag")) /\ Get(dic, Str("oml:tag")) # None
                    THEN List(Iterate(Get(dic, Str("oml:tag"))))
                    ELSE List(<<>>)
        IN  IF flow_id.exc # "" THEN flow_id
            ELSE IF params.exc # "" THEN params
            ELSE IF components.exc # "" THEN components
            ELSE Ok(
                [name |-> Get(dic, Str("oml:name")),
                 external_version |-> Get(dic, Str("oml:external_version")),
                 uploader |-> GetOr(dic, Str("oml:uploader")),
                 description |-> GetOr(dic, Str("oml:description")),
                 upload_date |-> GetOr(dic, Str("oml:upload_date")),
                 language |-> GetOr(dic, Str("oml:language")),
                 dependencies |-> GetOr(dic, Str("oml:dependencies")),
                 version |-> GetOr(dic, Str("oml:version")),
                 binary_url |-> GetOr(dic, Str("oml:binary_url")),
                 binary_format |-> GetOr(dic, Str("oml:binary_format")),
                 binary_md5 |-> GetOr(dic, Str("oml:binary_md5")),
                 flow_id |-> flow_id.val,
                 parameters |-> params.val.parameters,
                 parameters_meta_info |-> params.val.parameters_meta_info,
                 components |-> components.val,
                 tags |-> tags])

\* cls(**arguments)
_from_xml(xml_dict) ==
    LET collected == arguments(xml_dict)
    IN  IF collected.exc # "" THEN collected ELSE __init__(collected.val)

(***************************************************************************)
(* OpenMLFlow.__eq__                                                       *)
(***************************************************************************)
\* The instance attributes, self.__dict__.
Attributes == {"name", "description", "model", "components", "parameters",
               "parameters_meta_info", "external_version", "uploader", "tags",
               "binary_url", "binary_format", "binary_md5", "version",
               "upload_date", "language", "dependencies", "flow_id"}

\* A plausible slip: flow_id is left out of the list.
generated_without_flow_id == {"name", "uploader", "version", "upload_date",
                              "source_url", "binary_url", "source_format",
                              "binary_format", "source_md5", "binary_md5"}

generated_by_the_server == {"name", "flow_id", "uploader", "version",
                            "upload_date", "source_url", "binary_url",
                            "source_format", "binary_format", "source_md5",
                            "binary_md5"}

\* The attributes left in this_dict and other_dict when they are compared.
ComparedAttributes ==
    (Attributes \ {"parameters", "components", "model"}) \ generated_by_the_server

\* "this.keys() == other.keys() and all(a == b for a, b in zip(values))":
\* the key views compare as sets, the values pair up by position.
Zip(this, that) ==
    {<<this.items[i][2], that.items[i][2]>> :
        i \in DOMAIN this.items \cap DOMAIN that.items}

PyEq(x, y) == x = y

RECURSIVE FlowsEqual(_, _)
FlowsEqual(self, that) ==
    LET equal == \A field \in ComparedAttributes : PyEq(self[field], that[field])
        equal_name == PyEq(_get_name(self), _get_name(that))
        parameters_equal ==
            /\ KeySet(self.parameters) = KeySet(that.parameters)
            /\ \A pair \in Zip(self.parameters, that.parameters) :
                   PyEq(pair[1], pair[2])
        components_equal ==
            /\ KeySet(self.components) = KeySet(that.components)
            /\ \A pair \in Zip(self.components, that.components) :
                   FlowsEqual(pair[1], pair[2])
    IN  parameters_equal /\ components_equal /\ equal /\ equal_name

__eq__(self, that) ==
    IF that.ty = "OpenMLFlow" THEN Bool(FlowsEqual(self, that)) ELSE NotImplemented

(***************************************************************************)
(* Registry sync: publish, _ensure_flow_exists, _check_flow_exists         *)
(*                                                                         *)
(* _perform_api_call is the external transport: what it answers (a status  *)
(* code with a body, or an exception of its own) is an input of the call.  *)
(* An XML text carries the document it renders; xmltodict.parse gives the  *)
(* document back, and fails on a text that is no XML.                      *)
(***************************************************************************)
HTTP_OK == 200

XmlText(root, fields) ==
    [ty |-> "str", declaration |-> TRUE,
     document |-> OD(<< <<Str(root), OD(fields)>> >>)]
UploadBody(id) == XmlText("oml:upload_flow", << <<Str("oml:id"), Str(id)>> >>)
ExistsBody(id) == XmlText("oml:flow_exists", << <<Str("oml:id"), Str(id)>> >>)
ErrorBody == XmlText("oml:error", << <<Str("oml:code"), Str("171")>> >>)

xmltodict_parse(text) ==
    IF "document" \in DOMAIN text THEN Ok(text.document) ELSE Raise("ExpatError")

\* What a sync operation did: its outcome, the transport calls it made (the
\* path with the answer each got), the sync methods entered, and self as
\* the operation leaves it.
Outcome(r, calls, invoked, self) ==
    [exc |-> r.exc, val |-> r.val, calls |-> calls, invoked |-> invoked,
     self |-> self]

\* xml_dict[root]['oml:id']
IdOf(xml_dict, root) ==
    IF ~Has(xml_dict, Str(root)) THEN Raise("KeyError")
    ELSE IF ~IsDict(Get(xml_dict, Str(root))) THEN Raise("TypeError")
    ELSE IF ~Has(Get(xml_dict, Str(root)), Str("oml:id")) THEN Raise("KeyError")
    ELSE Ok(Get(Get(xml_dict, Str(root)), Str("oml:id")))

\* "type(x) is str and len(x) > 0"
NonEmptyStr(x) == x.ty = "str" /\ x.v # ""

\* _check_flow_exists from the transport call on.
CheckFlowExistsCall(name, version, response) ==
    LET calls == << [path |-> <<"flow/exists", name.v, version.v>>,
                     response |-> response] >>
    IN  IF response.exc # "" THEN Outcome(response, calls, <<>>, NoFlow)
        ELSE
        LET return_code == response.val.code
            xml_response == response.val.body
        IN  IF return_code # HTTP_OK
            THEN Outcome(Raise("ValueError"), calls, <<>>, NoFlow)
            ELSE
            LET xml_dict == xmltodict_parse(xml_response)
            IN  IF xml_dict.exc # "" THEN Outcome(xml_dict, calls, <<>>, NoFlow)
                ELSE
                LET flow_id == IdOf(xml_dict.val, "oml:flow_exists")
                IN  IF flow_id.exc # "" THEN Outcome(flow_id, calls, <<>>, NoFlow)
                    ELSE Outcome(
                        Ok([ty |-> "tuple",
                            items |-> <<IntV(return_code), xml_response,
                                        flow_id.val>>]),
                        calls, <<>>, NoFlow)

\* A plausible slip: version is not validated.
check_flow_exists_any_version(name, version, response) ==
    IF ~NonEmptyStr(name) THEN Outcome(Raise("ValueError"), <<>>, <<>>, NoFlow)
    ELSE CheckFlowExistsCall(name, version, response)

_check_flow_exists(name, version, response) ==
    IF ~NonEmptyStr(name) THEN Outcome(Raise("ValueError"), <<>>, <<>>, NoFlow)
    ELSE IF ~NonEmptyStr(version)
    THEN Outcome(Raise("ValueError"), <<>>, <<>>, NoFlow)
    ELSE CheckFlowExistsCall(name, version, response)

publish(self, response) ==
    LET xml_description == _to_xml(self)
    IN  IF xml_description.exc # ""
        THEN Outcome(xml_description, <<>>, <<"publish">>, self)
        ELSE
        LET calls == << [path |-> <<"flow/">>, response |-> response] >>
        IN  IF response.exc # "" THEN Outcome(response, calls, <<"publish">>, self)
            ELSE
            LET return_value == response.val.body
                parsed == xmltodict_parse(return_value)
            IN  IF parsed.exc # "" THEN Outcome(parsed, calls, <<"publish">>, self)
                ELSE
                LET id == IdOf(parsed.val, "oml:upload_flow")
                    flow_id == IF id.exc # "" THEN id ELSE int(id.val)
                IN  IF flow_id.exc # ""
                    THEN Outcome(flow_id, calls, <<"publish">>, self)
                    ELSE LET updated == [self EXCEPT !.flow_id = flow_id.val]
                         IN  Outcome(Ok(updated), calls, <<"publish">>, updated)

\* "a, b = value": a value that is no iterable cannot be unpacked.
Unpack2(value) ==
    IF value.ty \notin {"tuple", "list"} THEN Raise("TypeError")
    ELSE IF Len(value.items) # 2 THEN Raise("ValueError")
    ELSE Ok(value)

sklearn_version == "0.18"

\* The branch "if int(flow_id) == -1", from the return of self.publish() on.
EnsurePublished(published, calls, entered) ==
    IF published.exc # "" THEN Outcome(published, calls, entered, published.self)
    ELSE
    LET unpacked == Unpack2(published.val)
    IN  IF unpacked.exc # "" THEN Outcome(unpacked, calls, entered, published.self)
        ELSE
        LET response_dict == xmltodict_parse(unpacked.val.items[2])
            new_id == IF response_dict.exc # "" THEN response_dict
                      ELSE IdOf(response_dict.val, "oml:upload_flow")
            as_int == IF new_id.exc # "" THEN new_id ELSE int(new_id.val)
        IN  Outcome(as_int, calls, entered, published.self)

\* A plausible slip: the id of a flow found on the registry is stored on self.
EnsureCheckedStoresId(self, checked, flow_id, published) ==
    IF checked.exc # ""
    THEN Outcome(checked, checked.calls, <<"_check_flow_exists">>, self)
    ELSE IF flow_id.exc # ""
    THEN Outcome(flow_id, checked.calls, <<"_check_flow_exists">>, self)
    ELSE IF flow_id.val.v = -1
    THEN EnsurePublished(published, checked.calls \o published.calls,
                         <<"_check_flow_exists">> \o published.invoked)
    ELSE Outcome(flow_id, checked.calls, <<"_check_flow_exists">>,
                 [self EXCEPT !.flow_id = flow_id.val])

\* _ensure_flow_exists from the return of _check_flow_exists on.
EnsureChecked(self, checked, flow_id, published) ==
    IF checked.exc # ""
    THEN Outcome(checked, checked.calls, <<"_check_flow_exists">>, self)
    ELSE IF flow_id.exc # ""
    THEN Outcome(flow_id, checked.calls, <<"_check_flow_exists">>, self)
    ELSE IF flow_id.val.v = -1
    THEN EnsurePublished(published, checked.calls \o published.calls,
                         <<"_check_flow_exists">> \o published.invoked)
    ELSE Outcome(flow_id, checked.calls, <<"_check_flow_exists">>, self)

\* int(flow_id) of the tuple _check_flow_exists returned
CheckedId(checked) ==
    IF checked.exc # "" THEN checked ELSE int(checked.val.items[3])

EnsureWith(self, checked, published) ==
    EnsureChecked(self, checked, CheckedId(checked), published)

_ensure_flow_exists(self, response, publish_response) ==
    EnsureWith(self,
        _check_flow_exists(_get_name(self), Str("sklearn_" \o sklearn_version),
                           response),
        publish(self, publish_response))

(***************************************************************************)
(* create_flow_from_model                                                  *)
(***************************************************************************)
\* converted is what converter.serialize(model) returned or raised.
create_flow_from_model(converted, description) ==
    IF converted.exc # "" THEN converted
    ELSE IF converted.val.ty # "OpenMLFlow" THEN Raise("ValueError")
    ELSE IF description # None
    THEN Ok([converted.val EXCEPT !.description = description])
    ELSE converted

(***************************************************************************)
(* Inputs                                                                  *)
(***************************************************************************)
MaxParams == 2
MaxComponents == 2
MaxDepth == 2

Range(seq) == {seq[i] : i \in DOMAIN seq}

\* Sequences of at most n distinct elements of S: the insertion orders.
RECURSIVE Orders(_, _)
Orders(S, n) ==
    IF n = 0 THEN {<<>>}
    ELSE LET shorter == Orders(S, n - 1)
         IN  shorter \cup
             UNION {{Append(q, x) : x \in S \ Range(q)} : q \in shorter}

Reverse(seq) == [i \in DOMAIN seq |-> seq[Len(seq) + 1 - i]]

\* The parameters the inputs draw from: a name with its default value and
\* its meta-info.  "c" has a default value that is an int, 5 is a name that
\* is an int, "e" has the default value None.
ParameterNames == {Str("a"), Str("b"), Str("c"), IntV(5), Str("e")}
DefaultValue(name) ==
    CASE name = Str("a") -> Str("1")
      [] name = Str("b") -> Str("x")
      [] name = Str("c") -> IntV(7)
      [] name = IntV(5) -> Str("y")
      [] OTHER -> None
MetaInfo(name) ==
    CASE name = Str("a") -> [data_type |-> Str("int"), description |-> None]
      [] name = Str("b") -> [data_type |-> None, description |-> Str("doc")]
      [] name = Str("c") -> [data_type |-> Str("int"), description |-> Str("doc")]
      [] OTHER -> [data_type |-> None, description |-> None]

Parameters(names) == [i \in DOMAIN names |-> <<names[i], DefaultValue(names[i])>>]
MetaInfos(names) == [i \in DOMAIN names |-> <<names[i], MetaInfo(names[i])>>]

\* Arguments of a direct construction that passes only the required ones.
Required(parameters, parameters_meta_info, components) ==
    [name |-> Str("n"), description |-> Str("d"), model |-> Obj("m1"),
     components |-> components, parameters |-> parameters,
     parameters_meta_info |-> parameters_meta_info,
     external_version |-> Str("ev"), tags |-> List(<<>>),
     language |-> Str("en"), dependencies |-> Str("dep")]

\* Every choice of the optional fields, null or set, around two parameters.
ScalarInputs ==
    [name : {Str("n")}, description : {Str("d"), None}, model : {Obj("m1")},
     components : {OD(<<>>)},
     parameters : {OD(Parameters(<<Str("b"), Str("a")>>))},
     parameters_meta_info : {OD(MetaInfos(<<Str("b"), Str("a")>>))},
     external_version : {Str("ev")},
     tags : {List(<<>>), List(<<Str("t")>>)},
     language : {None, Str("en")}, dependencies : {None, Str("dep")},
     binary_url : {None, Str("http://b")}, binary_format : {None, Str("pkl")},
     binary_md5 : {None, Str("md5")}, uploader : {None, Str("1")},
     upload_date : {None, Str("2017-01-01")}, flow_id : {None, IntV(42)},
     version : {None, Str("2")}]

\* The meta-info mappings tried against a parameters mapping: the same
\* names in the same order, in reverse order, one name short, one name over.
MetaOrders(names) ==
    {names, Reverse(names)}
    \cup (IF names = <<>> THEN {} ELSE {SubSeq(names, 1, Len(names) - 1)})
    \cup {Append(names, x) : x \in {Str("z")}}

Containers == {"OrderedDict", "dict"}
As(cls, items) == [ty |-> cls, items |-> items]

\* Every insertion order of at most MaxParams parameters, against each
\* meta-info mapping, in each kind of container.
ParameterInputs ==
    UNION {{Required(As(c[1], Parameters(names)), As(c[2], MetaInfos(meta)),
                     As(c[3], <<>>)) :
                meta \in MetaOrders(names),
                c \in Containers \X Containers \X Containers} :
           names \in Orders(ParameterNames, MaxParams)}

Constructed(inputs) == {__init__(kw).val : kw \in {k \in inputs : __init__(k).exc = ""}}

\* Flows without components, used as components: one the registry has
\* filled in, one with an int default value, one with a None default value.
LeafFlows ==
    Constructed(
        {Required(OD(Parameters(<<Str("a")>>)), OD(MetaInfos(<<Str("a")>>)), OD(<<>>))
            @@ [flow_id |-> IntV(42), uploader |-> Str("1")],
         Required(OD(Parameters(<<Str("c")>>)), OD(MetaInfos(<<Str("c")>>)), OD(<<>>)),
         Required(OD(Parameters(<<Str("e")>>)), OD(MetaInfos(<<Str("e")>>)), OD(<<>>))})

\* Flows nested at most d deep, used as components.
RECURSIVE ChildFlows(_)
ChildFlows(d) ==
    IF d <= 1 THEN LeafFlows
    ELSE LeafFlows \cup
         Constructed({Required(OD(<<>>), OD(<<>>), OD(<< <<Str("C"), child>> >>)) :
                        child \in ChildFlows(d - 1)})

IdentifierNames == <<"C", "D", "E", "F">>
Identifiers == {Str(IdentifierNames[i]) : i \in 1..MaxComponents}

\* Every insertion order of at most MaxComponents components.
ComponentInputs ==
    UNION {{Required(OD(Parameters(<<Str("a")>>)), OD(MetaInfos(<<Str("a")>>)),
                     OD([i \in DOMAIN ids |-> <<ids[i], children[i]>>])) :
                children \in [DOMAIN ids -> ChildFlows(MaxDepth)]} :
           ids \in Orders(Identifiers, MaxComponents)}

\* Names the existence check accepts and rejects, and a flow that carries
\* a component.
NamedInputs ==
    {[Required(OD(<<>>), OD(<<>>), OD(<<>>)) EXCEPT !.name = n] :
        n \in {Str(""), IntV(3)}}
    \cup {Required(OD(<<>>), OD(<<>>), OD(<< <<Str("C"), child>> >>)) :
            child \in LeafFlows}
    \cup {Required(OD(<<>>), OD(<<>>), OD(<<>>)) @@ [flow_id |-> IntV(42)]}

\* What the transport answers to a call.
StatusCodes == {HTTP_OK, 500}
Answer(code, body) == Ok([ty |-> "tuple", code |-> code, body |-> body])
UploadResponses ==
    {Answer(code, body) : code \in StatusCodes,
                          body \in {UploadBody("5"), UploadBody("6"), ErrorBody}}
    \cup {Raise("TransportError")}
ExistsResponses ==
    {Answer(code, body) : code \in StatusCodes,
                          body \in {ExistsBody("-1"), ExistsBody("17"), ErrorBody}}
    \cup {Raise("TransportError")}

(***************************************************************************)
(* State machine                                                           *)
(*                                                                         *)
(* args: the arguments the flow is constructed from; flow: the flow (self) *)
(* once constructed; other: a second flow, the deserialized one or the     *)
(* right-hand side of a comparison; result: what the last operation did.   *)
(***************************************************************************)
\* given: the arguments of a call that takes some besides self.
Result(op, given, r, calls, invoked) ==
    [op |-> op, given |-> given, exc |-> r.exc, val |-> r.val, calls |-> calls,
     invoked |-> invoked]
NoResult == Result("none", <<>>, Ok(None), <<>>, <<>>)

InitWith(inputs) ==
    /\ args \in inputs
    /\ flow = NoFlow
    /\ other = NoFlow
    /\ result = NoResult

Init == InitWith(ParameterInputs \cup NamedInputs)

InitCodec == InitWith(ScalarInputs \cup ComponentInputs \cup ParameterInputs)

\* OpenMLFlow(**args)
Construct ==
    /\ flow = NoFlow /\ result.op = "none"
    /\ LET r == __init__(args)
       IN  /\ flow' = IF r.exc = "" THEN r.val ELSE NoFlow
           /\ result' = Result("__init__", <<>>, r, <<>>, <<>>)
    /\ UNCHANGED <<args, other>>

\* create_flow_from_model(model, converter, description), with a converter
\* that builds the flow from args or returns something that is no flow.
CreateFlowFromModel ==
    /\ flow = NoFlow /\ result.op = "none"
    /\ \E converted \in {__init__(args), Ok(Str("no flow"))},
          description \in {None, Str("described")} :
          LET r == create_flow_from_model(converted, description)
          IN  /\ flow' = IF r.exc = "" THEN r.val ELSE NoFlow
              /\ result' = Result("create_flow_from_model", <<>>, r, <<>>, <<>>)
    /\ UNCHANGED <<args, other>>

ToDict ==
    /\ flow # NoFlow
    /\ result' = Result("_to_dict", <<>>, _to_dict(flow), <<>>, <<>>)
    /\ UNCHANGED <<args, flow, other>>

ToXml ==
    /\ flow # NoFlow
    /\ result' = Result("_to_xml", <<>>, _to_xml(flow), <<>>, <<>>)
    /\ UNCHANGED <<args, flow, other>>

\* OpenMLFlow._from_xml on the document _to_dict just returned.
FromXml ==
    /\ result.op = "_to_dict" /\ result.exc = ""
    /\ LET r == _from_xml(result.val)
       IN  /\ other' = IF r.exc = "" THEN r.val ELSE other
           /\ result' = Result("_from_xml", <<>>, r, <<>>, <<>>)
    /\ UNCHANGED <<args, flow>>

Publish ==
    /\ flow # NoFlow
    /\ \E response \in UploadResponses :
          LET r == publish(flow, response)
          IN  /\ flow' = r.self
              /\ result' = Result("publish", <<>>, r, r.calls, r.invoked)
    /\ UNCHANGED <<args, other>>

CheckFlowExists ==
    /\ flow # NoFlow
    /\ \E name \in {Str("n"), Str(""), IntV(3)},
          version \in {Str("1.0"), Str(""), None},
          response \in ExistsResponses :
          LET r == _check_flow_exists(name, version, response)
          IN  result' = Result("_check_flow_exists", <<name, version>>, r, r.calls,
                               r.invoked)
    /\ UNCHANGED <<args, flow, other>>

EnsureFlowExists ==
    /\ flow # NoFlow
    /\ \E response \in ExistsResponses, publish_response \in UploadResponses :
          LET r == _ensure_flow_exists(flow, response, publish_response)
          IN  /\ flow' = r.self
              /\ result' = Result("_ensure_flow_exists", <<>>, r, r.calls, r.invoked)
    /\ UNCHANGED <<args, other>>

Next ==
    \/ Construct
    \/ CreateFlowFromModel
    \/ ToDict
    \/ ToXml
    \/ FromXml
    \/ Publish
    \/ CheckFlowExists
    \/ EnsureFlowExists

Spec == Init /\ [][Next]_vars

NextCodec ==
    \/ Construct
    \/ CreateFlowFromModel
    \/ ToDict
    \/ ToXml
    \/ FromXml

SpecCodec == InitCodec /\ [][NextCodec]_vars

(***************************************************************************)
(* Comparison of two constructed flows                                     *)
(***************************************************************************)
\* The parameters of the compared flows: every insertion order of "a" and
\* "b", each with either default value; the meta-info follows the names.
EqParameters ==
    UNION {{[i \in DOMAIN names |-> <<names[i], values[i]>>] :
                values \in [DOMAIN names -> {Str("1"), Str("2")}]} :
           names \in Orders({Str("a"), Str("b")}, MaxParams)}
EqMetaInfos(parameters) ==
    SelectSeq(MetaInfos(<<Str("a"), Str("b")>>),
              LAMBDA entry : entry[1] \in {parameters[i][1] : i \in DOMAIN parameters})

\* What the registry and the caller may change around the same description.
Variants(kw) ==
    {kw,
     kw @@ [flow_id |-> IntV(42)],
     [kw EXCEPT !.model = Obj("m2")]
        @@ [flow_id |-> IntV(17), uploader |-> Str("1"), version |-> Str("2"),
            upload_date |-> Str("2017-01-01"), binary_url |-> Str("http://b"),
            binary_format |-> Str("pkl"), binary_md5 |-> Str("md5")],
     [kw EXCEPT !.description = Str("another")]}

EqLeaf(value) ==
    Required(OD(<< <<Str("a"), Str(value)>> >>), OD(MetaInfos(<<Str("a")>>)), OD(<<>>))
EqLeafInputs ==
    {EqLeaf("1"), EqLeaf("2"),
     [EqLeaf("1") EXCEPT !.model = Obj("m2")]
        @@ [flow_id |-> IntV(42), uploader |-> Str("1"), version |-> Str("2")]}

EqComponents ==
    {OD(<<>>)} \cup {OD(<< <<Str("C"), child>> >>) : child \in Constructed(EqLeafInputs)}

EqInputs ==
    UNION {Variants(Required(OD(parameters), OD(EqMetaInfos(parameters)), components)) :
             parameters \in EqParameters, components \in EqComponents}

InitEq ==
    /\ args \in EqInputs
    /\ flow = __init__(args).val
    /\ other \in Constructed(EqInputs) \cup {Str("no flow")}
    /\ result = NoResult

\* flow == other
Compare ==
    /\ result.op = "none"
    /\ flow # NoFlow /\ other # NoFlow
    /\ result' = Result("__eq__", <<>>, Ok(__eq__(flow, other)), <<>>, <<>>)
    /\ UNCHANGED <<args, flow, other>>

NextEq == Compare

SpecEq == InitEq /\ [][NextEq]_vars

(***************************************************************************)
(* Claims                                                                  *)
(***************************************************************************)
IsFlow(f) == f.ty = "OpenMLFlow"
Components(f) == {f.components.items[i][2] : i \in DOMAIN f.components.items}

\* Every parameter name and default value of f and of its components, at
\* any depth, is a string.
RECURSIVE StringParameters(_)
StringParameters(f) ==
    /\ \A i \in DOMAIN f.parameters.items :
           /\ f.parameters.items[i][1].ty = "str"
           /\ f.parameters.items[i][2].ty = "str"
    /\ \A c \in Components(f) : StringParameters(c)

\* C1: deserializing the document _to_dict produced for a constructed flow
\* whose parameter names and values are strings succeeds and yields a flow
\* equal to it under __eq__, the parameters of every component included.
C1_RoundTrip ==
    (result.op = "_from_xml" /\ StringParameters(flow)) =>
        /\ result.exc = ""
        /\ IsFlow(other)
        /\ FlowsEqual(other, flow)
        /\ KeysOf(other.components) = KeysOf(flow.components)
        /\ \A i \in DOMAIN flow.components.items :
               other.components.items[i][2].parameters
                   = flow.components.items[i][2].parameters

\* How often a sync method was entered during the last operation.
Entered(method) ==
    Cardinality({i \in DOMAIN result.invoked : result.invoked[i] = method})

\* C2: _ensure_flow_exists performs the existence check first; when the
\* check answers the sentinel id -1 it enters publish exactly once and
\* returns the id the registry newly assigned; when it answers another id,
\* no publish and no upload call is made and that id is returned as an int.
C2_Sentinel ==
    (/\ result.op = "_ensure_flow_exists"
     /\ result.calls # <<>>
     /\ \E id \in {"-1", "17"} :
            result.calls[1].response = Answer(HTTP_OK, ExistsBody(id))) =>
        /\ result.calls[1].path[1] = "flow/exists"
        /\ IF result.calls[1].response = Answer(HTTP_OK, ExistsBody("-1"))
           THEN /\ Entered("publish") = 1
                /\ \A id \in {"5", "6"} :
                       (/\ Len(result.calls) = 2
                        /\ result.calls[2].response = Answer(HTTP_OK, UploadBody(id)))
                       => (result.exc = "" /\ result.val = IntV(Numerals[id]))
           ELSE /\ Entered("publish") = 0
                /\ Len(result.calls) = 1
                /\ result.exc = ""
                /\ result.val = IntV(17)

\* The two mappings hold the same value under every key.
SameMapping(this, that) ==
    /\ KeySet(this) = KeySet(that)
    /\ \A k \in KeySet(this) : Get(this, k) = Get(that, k)

\* C3: for two flows that agree on every other compared attribute and on
\* components, A == B is true exactly when the two parameters mappings
\* have the same keys and the same value under every key, whatever the
\* insertion orders.
C3_ParametersByKey ==
    (/\ result.op = "__eq__"
     /\ IsFlow(other)
     /\ \A field \in ComparedAttributes \cup {"name", "components"} :
            flow[field] = other[field]) =>
        (result.val = Bool(TRUE) <=> SameMapping(flow.parameters, other.parameters))

\* f with the fields the registry assigns and the model reference blanked,
\* in f and in its components at any depth.
RECURSIVE Described(_)
Described(f) ==
    [f EXCEPT !.flow_id = None, !.uploader = None, !.version = None,
              !.upload_date = None, !.binary_url = None, !.binary_format = None,
              !.binary_md5 = None, !.model = None,
              !.components = OD([i \in DOMAIN f.components.items |->
                  <<f.components.items[i][1],
                    Described(f.components.items[i][2])>>])]

\* C10: two flows that are identical except for flow_id, uploader, version,
\* upload_date, binary_url, binary_format, binary_md5 or model, at the top
\* level or inside components, compare equal.
C10_RegistryFieldsIgnored ==
    (result.op = "__eq__" /\ IsFlow(other) /\ Described(flow) = Described(other)) =>
        result.val = Bool(TRUE)

\* Two flows that differ in flow_id at the top level and in registry fields
\* of a component, and in nothing else, were compared.
C10_Witness ==
    /\ result.op = "__eq__" /\ IsFlow(other)
    /\ Described(flow) = Described(other)
    /\ flow.flow_id = None /\ other.flow_id = IntV(42)
    /\ \E i \in DOMAIN flow.components.items :
           flow.components.items[i][2].flow_id
               # other.components.items[i][2].flow_id
    /\ result.val = Bool(TRUE)

SyncOps == {"publish", "_check_flow_exists", "_ensure_flow_exists"}

\* The flow was constructed with flow_id null.
ConstructedNull == "flow_id" \notin DOMAIN args \/ args.flow_id = None

\* The operation that gave res entered publish, the registry answered the
\* upload with an id, and id is that id as a positive integer.
PublishedId(res, id) ==
    /\ res.op \in {"publish", "_ensure_flow_exists"}
    /\ \E i \in DOMAIN res.invoked : res.invoked[i] = "publish"
    /\ res.calls # <<>>
    /\ LET call == res.calls[Len(res.calls)]
       IN  /\ call.path = <<"flow/">>
           /\ \E n \in DOMAIN Numerals :
                  /\ call.response.exc = ""
                  /\ call.response.val.body = UploadBody(n)
                  /\ id = IntV(Numerals[n])
                  /\ Numerals[n] > 0

\* C4 as stated: on a flow constructed with flow_id null, flow_id stays
\* null until a publish succeeds, is then the positive integer the registry
\* returned, and no later operation, a second publish included, changes it.
C4_AssignedOnce ==
    [][(ConstructedNull /\ IsFlow(flow')) =>
          /\ (~IsFlow(flow) => flow'.flow_id = None)
          /\ (IsFlow(flow) /\ flow.flow_id = None /\ flow'.flow_id # None
                => PublishedId(result', flow'.flow_id))
          /\ (IsFlow(flow) /\ flow.flow_id # None
                => flow'.flow_id = flow.flow_id)]_vars

\* C4 as amended: on a flow constructed with flow_id null, flow_id is null
\* after construction, only a publish that parsed the registry's answer
\* changes it (a second publish included), and after every publish that
\* returns it is the positive integer id of that answer.
C4_AssignedByPublish ==
    [][(ConstructedNull /\ IsFlow(flow')) =>
          /\ (~IsFlow(flow) => flow'.flow_id = None)
          /\ (IsFlow(flow) /\ flow'.flow_id # flow.flow_id
                => PublishedId(result', flow'.flow_id))
          /\ (result'.op = "publish" /\ result'.exc = ""
                => PublishedId(result', flow'.flow_id))]_vars

\* A publish returned on a flow constructed with flow_id null, and flow_id
\* is the id the registry answered.
C4_Witness ==
    /\ ConstructedNull /\ IsFlow(flow)
    /\ result.op = "publish" /\ result.exc = ""
    /\ result.calls[1].response = Answer(HTTP_OK, UploadBody("6"))
    /\ flow.flow_id = IntV(6)

\* The transport answered a call of the operation with a non-success code.
NonSuccess(calls) ==
    \E i \in DOMAIN calls :
        /\ calls[i].response.exc = ""
        /\ calls[i].response.val.code # HTTP_OK

\* C5: whenever the transport answers a call of publish, _check_flow_exists
\* or _ensure_flow_exists with a non-success status code, the operation
\* ends in an error and the flow's flow_id is left unchanged.
C5_RemoteError ==
    [][(result'.op \in SyncOps /\ NonSuccess(result'.calls)) =>
          /\ result'.exc # ""
          /\ flow' = flow]_vars

\* f and its components at any depth.
RECURSIVE FlowTree(_)
FlowTree(f) == {f} \cup UNION {FlowTree(c) : c \in Components(f)}

\* C6: a construction whose parameters and parameters_meta_info differ in
\* their keys fails (ValueError when the three containers are
\* OrderedDicts, TypeError when one is not), also through the factory, and
\* so every flow there is, at any depth and after any operation, has the
\* same keys in parameters and parameters_meta_info.
C6_KeySets ==
    /\ result.op \in {"__init__", "create_flow_from_model"} =>
         LET ordered == \A c \in {args.components, args.parameters,
                                  args.parameters_meta_info} : c.ty = "OrderedDict"
             mismatch == KeySet(args.parameters) # KeySet(args.parameters_meta_info)
         IN  /\ mismatch => (result.exc # "" /\ ~IsFlow(flow))
             /\ (result.op = "__init__" /\ ~ordered) => result.exc = "TypeError"
             /\ (result.op = "__init__" /\ ordered /\ mismatch)
                    => result.exc = "ValueError"
    /\ \A top \in {flow, other} :
           IsFlow(top) =>
               \A f \in FlowTree(top) :
                   /\ f.parameters.ty = "OrderedDict"
                   /\ f.parameters_meta_info.ty = "OrderedDict"
                   /\ KeySet(f.parameters) = KeySet(f.parameters_meta_info)

\* A construction with a name only in parameters_meta_info was refused.
C6_Witness ==
    /\ result.op = "__init__" /\ result.exc = "ValueError"
    /\ KeySet(args.parameters_meta_info) \ KeySet(args.parameters) # {}
    /\ KeySet(args.parameters) \ KeySet(args.parameters_meta_info) = {}
    /\ ~IsFlow(flow)

\* The schema's order of the fields of oml:flow, each with the attribute it
\* carries ("" for the repeated blocks).
SchemaOrder ==
    << <<"oml:id", "flow_id">>, <<"oml:uploader", "uploader">>,
       <<"oml:name", "name">>, <<"oml:version", "version">>,
       <<"oml:external_version", "external_version">>,
       <<"oml:description", "description">>,
       <<"oml:upload_date", "upload_date">>, <<"oml:language", "language">>,
       <<"oml:dependencies", "dependencies">>, <<"oml:parameter", "">>,
       <<"oml:component", "">>, <<"oml:tag", "tags">>,
       <<"oml:binary_url", "binary_url">>,
       <<"oml:binary_format", "binary_format">>,
       <<"oml:binary_md5", "binary_md5">> >>
AlwaysPresent == {"oml:name", "oml:external_version", "oml:description",
                  "oml:parameter", "oml:component", "oml:tag"}

\* The fields of an element without its attributes (the "@..." entries).
Fields(element) ==
    SelectSeq(element.items, LAMBDA entry : entry[1] # Str("@xmlns:oml"))

\* The parameter block of the i-th parameter of f, as the schema orders it.
ExpectedParameter(f, i) ==
    LET name == f.parameters.items[i][1]
        meta == Get(f.parameters_meta_info, name)
    IN  SelectSeq(<< <<Str("oml:name"), name>>,
                     <<Str("oml:data_type"), meta.data_type>>,
                     <<Str("oml:default_value"), f.parameters.items[i][2]>>,
                     <<Str("oml:description"), meta.description>> >>,
                  LAMBDA entry : entry[1] \in {Str("oml:name"), Str("oml:default_value")}
                                 \/ entry[2] # None)

\* element is the oml:flow element of f: the schema's fields in the
\* schema's order, a parameter block per parameter and a component block
\* per component in insertion order, the components' elements likewise.
RECURSIVE Conforms(_, _)
Conforms(f, element) ==
    LET expected == SelectSeq(SchemaOrder,
                        LAMBDA field : field[1] \in AlwaysPresent \/ f[field[2]] # None)
        fields == Fields(element)
        parameters == Get(element, Str("oml:parameter")).items
        components == Get(element, Str("oml:component")).items
    IN  /\ element.ty = "OrderedDict"
        /\ [i \in DOMAIN fields |-> fields[i][1]]
               = [i \in DOMAIN expected |-> Str(expected[i][1])]
        /\ \A i \in DOMAIN expected :
               expected[i][2] # "" => fields[i][2] = f[expected[i][2]]
        /\ Len(parameters) = Len(f.parameters.items)
        /\ \A i \in DOMAIN parameters :
               parameters[i] = OD(ExpectedParameter(f, i))
        /\ Len(components) = Len(f.components.items)
        /\ \A i \in DOMAIN components :
               /\ KeysOf(components[i]) = <<Str("oml:identifier"), Str("oml:flow")>>
               /\ Get(components[i], Str("oml:identifier")) = f.components.items[i][1]
               /\ Conforms(f.components.items[i][2],
                           Get(components[i], Str("oml:flow")))

\* C7: the document _to_dict returns holds the fields of oml:flow in the
\* schema's order, name, external_version and description always and each
\* other scalar field exactly when it is not null, the parameter blocks in
\* the insertion order of parameters and the component blocks in that of
\* components, each with its identifier and the child's element.
C7_SchemaOrder ==
    (result.op = "_to_dict" /\ result.exc = "") =>
        /\ KeysOf(result.val) = <<Str("oml:flow")>>
        /\ Conforms(flow, Get(result.val, Str("oml:flow")))

\* A flow with parameters inserted as b, a, with an id and without a
\* version, was serialized.
C7_Witness ==
    /\ result.op = "_to_dict" /\ result.exc = ""
    /\ KeysOf(flow.parameters) = <<Str("b"), Str("a")>>
    /\ flow.flow_id # None /\ flow.version = None /\ flow.binary_md5 # None

\* C8: serializing a flow in which a parameter name or default value, at
\* any depth, is not a string fails with ValueError and returns no document.
C8_NonStringRefused ==
    (result.op = "_to_dict" /\ ~StringParameters(flow)) =>
        (result.exc = "ValueError" /\ result.val = None)

\* "a non-empty string"
Valid(x) == x.ty = "str" /\ x.v # ""

\* C9: _check_flow_exists given a name or a version that is empty or no
\* string fails with ValueError without any transport call; a transport
\* call is made only with both valid.
C9_ValidatedFirst ==
    /\ result.op = "_check_flow_exists" =>
         /\ (~Valid(result.given[1]) \/ ~Valid(result.given[2]))
                => (result.exc = "ValueError" /\ result.calls = <<>>)
         /\ result.calls # <<>> =>
                /\ Valid(result.given[1]) /\ Valid(result.given[2])
                /\ result.calls[1].path
                       = <<"flow/exists", result.given[1].v, result.given[2].v>>
    /\ (result.op = "_ensure_flow_exists" /\ ~Valid(flow.name))
           => (result.exc = "ValueError" /\ result.calls = <<>>)

\* The existence check was given a valid name and an empty version and refused.
C9_Witness ==
    /\ result.op = "_check_flow_exists"
    /\ result.given = <<Str("n"), Str("")>>
    /\ result.exc = "ValueError" /\ result.calls = <<>>

(***************************************************************************)
(* Deserializing registry documents                                        *)
(*                                                                         *)
(* xml_dict as xmltodict.parse returns it: an element that occurs once is  *)
(* the element's own value (an OrderedDict, or a str when it holds text    *)
(* only), one that occurs several times a list of them, an empty element   *)
(* None, and an element that does not occur is no key at all.              *)
(***************************************************************************)
MaxTags == 2

EntryNames == <<"a", "b", "c", "d">>
TagTexts == <<"tag", "t", "tag", "t">>

ParameterEntry(name) ==
    OD(<< <<Str("oml:name"), Str(name)>>,
          <<Str("oml:default_value"), Str("1")>> >>)

FlowDocument(name, fields) ==
    OD(<< <<Str("oml:flow"),
            OD(<< <<Str("oml:name"), Str(name)>>,
                  <<Str("oml:external_version"), Str("ev")>> >> \o fields)>> >>)

ComponentEntry(identifier) ==
    OD(<< <<Str("oml:identifier"), Str(identifier)>>,
          <<Str("oml:flow"), Get(FlowDocument(identifier, <<>>), Str("oml:flow"))>> >>)

ParameterEntries == [i \in 1..MaxParams |-> ParameterEntry(EntryNames[i])]
ComponentEntries == [i \in 1..MaxComponents |-> ComponentEntry(EntryNames[i])]
TagEntries == [i \in 1..MaxTags |-> Str(TagTexts[i])]

\* The ways a repeated element shows up under key: not at all, once (the
\* bare entry), or as a list of the first n entries.
Presentations(key, entries) ==
    {<<>>, << <<Str(key), entries[1]>> >>}
    \cup {<< <<Str(key), List(SubSeq(entries, 1, n))>> >> : n \in 1..Len(entries)}

Documents ==
    {FlowDocument("n", parameter \o component \o tag) :
        parameter \in Presentations("oml:parameter", ParameterEntries),
        component \in Presentations("oml:component", ComponentEntries),
        tag \in Presentations("oml:tag", TagEntries)
                \cup {<< <<Str("oml:tag"), None>> >>}}

InitDocument == InitWith(Documents)

\* OpenMLFlow._from_xml(args) on a document of the registry.
FromXmlDocument ==
    /\ result.op = "none"
    /\ LET r == _from_xml(args)
       IN  /\ other' = IF r.exc = "" THEN r.val ELSE other
           /\ result' = Result("_from_xml", <<args>>, r, <<>>, <<>>)
    /\ UNCHANGED <<args, flow>>

NextDocument == FromXmlDocument

SpecDocument == InitDocument /\ [][NextDocument]_vars

\* The entries a document presents under key, one entry and a list of one
\* read alike, an absent or null element as no entry.
Presented(dic, key) ==
    IF ~Has(dic, Str(key)) \/ Get(dic, Str(key)) = None THEN <<>>
    ELSE IF Get(dic, Str(key)).ty = "list" THEN Get(dic, Str(key)).items
    ELSE <<Get(dic, Str(key))>>

\* C11: deserializing a document yields a flow whose parameters map the
\* names of the parameter entries the document presents, in their order,
\* whose components map the identifiers of its component entries, and whose
\* tags are its tag entries, whether one entry comes bare or as a list of
\* one; n entries yield size n, an absent or null tag element no tags.
C11_Normalized ==
    result.op = "_from_xml" =>
        LET dic == Get(result.given[1], Str("oml:flow"))
            parameter == Presented(dic, "oml:parameter")
            component == Presented(dic, "oml:component")
        IN  /\ result.exc = ""
            /\ KeysOf(result.val.parameters)
                  = [i \in DOMAIN parameter |-> Get(parameter[i], Str("oml:name"))]
            /\ KeysOf(result.val.parameters_meta_info)
                  = KeysOf(result.val.parameters)
            /\ KeysOf(result.val.components)
                  = [i \in DOMAIN component |->
                        Get(component[i], Str("oml:identifier"))]
            /\ result.val.tags = List(Presented(dic, "oml:tag"))

====
